---- MODULE Spec2Model ----
(***************************************************************************)
(* Metadata extraction of the rag-demo scripts.                            *)
(*                                                                         *)
(* A Python str is a sequence of one-character strings, Python's None is   *)
(* the value None below (which is no str), and a regular expression is a   *)
(* sequence of nodes interpreted by a backtracking matcher that follows    *)
(* the rules of Python's re module: leftmost match, alternatives in order, *)
(* greedy repeats longest first, lazy repeats shortest first.              *)
(***************************************************************************)
EXTENDS Integers, Sequences, FiniteSets, TLC

VARIABLES
    script,        \* which script's extract_metadata_from_pdf is running
    pdf,           \* the PDF file it is given: name, container title, pages, first-page text
    pc,            \* position inside extract_metadata_from_pdf
    pdf_metadata,  \* the container title read from doc.metadata, None until read
    found,         \* what the extractors returned: the locals year, title, authors, journal
    calls,         \* the extractors called so far
    metadata,      \* the record being built and returned
    opened,        \* number of document handles open (fitz.open without doc.close)
    raised,        \* the step that raised an exception, or "none"
    fn,            \* a single extractor applied on its own: which one, or "none"
    arg,           \* the text it is applied to
    ret,           \* what it returned
    pdf_files,     \* the files of a batch run, in the order the directory search gives them
    outcomes,      \* what happened to each file processed so far
    documents,     \* the chunks load_documents_with_metadata has collected
    metadata_list, \* the entries save_unique_metadata_summary has written
    sections       \* the sections split_psychology_journals has collected

batch_vars == <<pdf_files, outcomes, documents, metadata_list, sections>>

vars == <<script, pdf, pc, pdf_metadata, found, calls, metadata, opened, raised, fn, arg, ret,
          batch_vars>>

----------------------------------------------------------------------------
(* Characters and Python's str methods *)

None == <<"None">>

UpperSeq == <<"A","B","C","D","E","F","G","H","I","J","K","L","M",
              "N","O","P","Q","R","S","T","U","V","W","X","Y","Z">>
LowerSeq == <<"a","b","c","d","e","f","g","h","i","j","k","l","m",
              "n","o","p","q","r","s","t","u","v","w","x","y","z">>

Upper == {UpperSeq[i] : i \in DOMAIN UpperSeq}
Lower == {LowerSeq[i] : i \in DOMAIN LowerSeq}
Letter == Upper \cup Lower
Digit == {"0","1","2","3","4","5","6","7","8","9"}
Space == {" ", "\n", "\t"}
WordChar == Letter \cup Digit \cup {"_"}

LowerOf == [c \in Upper |-> LowerSeq[CHOOSE i \in DOMAIN UpperSeq : UpperSeq[i] = c]]
UpperOf == [c \in Lower |-> UpperSeq[CHOOSE i \in DOMAIN LowerSeq : LowerSeq[i] = c]]

ToLower(c) == IF c \in Upper THEN LowerOf[c] ELSE c
SwapCase(c) == IF c \in Upper THEN LowerOf[c] ELSE IF c \in Lower THEN UpperOf[c] ELSE c

\* str.lower()
lower(s) == [i \in 1..Len(s) |-> ToLower(s[i])]

\* str.isupper(): at least one cased character and no lowercase one
isupper(s) == /\ \E i \in 1..Len(s) : s[i] \in Upper
              /\ \A i \in 1..Len(s) : s[i] \notin Lower

\* s[:n]
Prefix(s, n) == SubSeq(s, 1, IF Len(s) < n THEN Len(s) ELSE n)

\* str.startswith(w)
startswith(s, w) == Len(s) >= Len(w) /\ SubSeq(s, 1, Len(w)) = w

\* w in s
Contains(s, w) == \E i \in 1..(Len(s) - Len(w) + 1) : SubSeq(s, i, i + Len(w) - 1) = w

\* The indices of s, in order, at which Test holds
Where(s, Test(_)) == SelectSeq([i \in 1..Len(s) |-> i], Test)

\* str.strip(): from the first to the last non-whitespace character
strip(s) ==
    LET solid == Where(s, LAMBDA i : s[i] \notin Space)
    IN  IF solid = <<>> THEN <<>> ELSE SubSeq(s, solid[1], solid[Len(solid)])

\* str.split('\n'): the pieces between the newlines
split_lines(s) ==
    LET nl == Where(s, LAMBDA i : s[i] = "\n")
    IN  [k \in 1..(Len(nl) + 1) |->
            SubSeq(s, IF k = 1 THEN 1 ELSE nl[k - 1] + 1,
                      IF k = Len(nl) + 1 THEN Len(s) ELSE nl[k] - 1)]

\* str.split(): the maximal runs of non-whitespace characters
split(s) ==
    LET starts == Where(s, LAMBDA i : s[i] \notin Space /\ (i = 1 \/ s[i - 1] \in Space))
        ends == Where(s, LAMBDA i : s[i] \notin Space /\ (i = Len(s) \/ s[i + 1] \in Space))
    IN  [k \in 1..Len(starts) |-> SubSeq(s, starts[k], ends[k])]

\* sep.join(parts)
RECURSIVE join(_, _)
join(sep, parts) ==
    IF parts = <<>> THEN <<>>
    ELSE IF Len(parts) = 1 THEN parts[1]
    ELSE parts[1] \o sep \o join(sep, Tail(parts))

\* Python truthiness of a str or None
Truthy(v) == v # None /\ v # <<>>

----------------------------------------------------------------------------
(* Regular expressions: nodes *)

Lit(s) == [op |-> "lit", s |-> s]
Cls(S, neg, lo, hi, lazy) ==
    [op |-> "cls", set |-> S, neg |-> neg, lo |-> lo, hi |-> hi, lazy |-> lazy]
One(S)  == Cls(S, FALSE, 1, 1, FALSE)          \* [S]
Plus(S) == Cls(S, FALSE, 1, -1, FALSE)         \* [S]+
Star(S) == Cls(S, FALSE, 0, -1, FALSE)         \* [S]*
Opt(S)  == Cls(S, FALSE, 0, 1, FALSE)          \* [S]?
Rep(S, lo, hi) == Cls(S, FALSE, lo, hi, FALSE) \* [S]{lo,hi}
Alt(alts) == [op |-> "alt", alts |-> alts]     \* (?:a|b|...)
StarGroup(body) == [op |-> "star", body |-> body]  \* (?:body)*
CapOpen == [op |-> "open"]                     \* (
CapClose == [op |-> "close"]                   \* )
Bol == [op |-> "bol"]                          \* ^
Eol == [op |-> "eol"]                          \* $
Wb == [op |-> "wb"]                            \* \b

NoMatch == [ok |-> FALSE, start |-> 0, end |-> 0, cs |-> 0, ce |-> 0]

\* Does character c belong to the class of node h (under re.IGNORECASE when ic)?
InClass(h, c, ic) ==
    LET member == c \in h.set \/ (ic /\ SwapCase(c) \in h.set)
    IN  IF h.neg THEN ~member ELSE member

\* Number of consecutive characters of t from p on that node h accepts, at most h.hi
RunLen(h, t, p, ic) ==
    LET rest == Len(t) + 1 - p
        most == IF h.hi >= 0 /\ h.hi < rest THEN h.hi ELSE rest
        stops == {k \in 0..most : k = most \/ ~InClass(h, t[p + k], ic)}
    IN  CHOOSE k \in stops : \A j \in stops : k <= j

LitAt(s, t, p, ic) ==
    /\ p + Len(s) - 1 <= Len(t)
    /\ \A k \in 1..Len(s) :
          IF ic THEN ToLower(t[p + k - 1]) = ToLower(s[k]) ELSE t[p + k - 1] = s[k]

IsWordAt(t, p) == p >= 1 /\ p <= Len(t) /\ t[p] \in WordChar

\* seqs[lo] \o ... \o seqs[hi]
RECURSIVE Flatten(_, _, _)
Flatten(seqs, lo, hi) ==
    IF lo > hi THEN <<>>
    ELSE IF lo = hi THEN seqs[lo]
    ELSE LET mid == (lo + hi) \div 2
         IN  Flatten(seqs, lo, mid) \o Flatten(seqs, mid + 1, hi)

\* seqs[1] \o ... \o seqs[Len(seqs)]
Concat(seqs) == Flatten(seqs, 1, Len(seqs))

\* The list without the repetitions of an earlier element
Dedup(l) ==
    LET firsts == Where(l, LAMBDA i : \A j \in 1..(i - 1) : l[j] # l[i])
    IN  [k \in 1..Len(firsts) |-> l[firsts[k]]]

(* A matcher state is the position reached and the bounds of group 1 so far.  The    *)
(* matcher computes, for a pattern and a state, the states in which the pattern can   *)
(* end, in the order in which backtracking would find them: alternatives left to      *)
(* right, a greedy repeat longest first, a lazy repeat shortest first.  A state that  *)
(* comes up again later in the list continues as its first occurrence does and is     *)
(* dropped, so the first state of the list is the match re finds.                     *)
RECURSIVE Run(_, _, _, _, _)
RECURSIVE Step(_, _, _, _)
RECURSIVE Visit(_, _, _, _, _)
RECURSIVE VisitAll(_, _, _, _, _, _)

\* The states after the nodes k, k+1, ... of pat, from the states given
Run(pat, k, states, t, ic) ==
    IF k > Len(pat) \/ states = <<>> THEN states
    ELSE Run(pat, k + 1,
             Dedup(Concat([i \in 1..Len(states) |-> Step(pat[k], states[i], t, ic)])),
             t, ic)

\* (?:body)* from state st, depth first: each state reached by one more round of the
\* body is explored before st itself, the match of no further round, is listed
Visit(h, st, acc, t, ic) ==
    IF st \in acc.seen THEN acc
    ELSE [VisitAll(h, SelectSeq(Run(h.body, 1, <<st>>, t, ic), LAMBDA x : x.pos > st.pos),
                   1, [acc EXCEPT !.seen = @ \cup {st}], t, ic)
            EXCEPT !.out = Append(@, st)]

VisitAll(h, states, i, acc, t, ic) ==
    IF i > Len(states) THEN acc
    ELSE VisitAll(h, states, i + 1, Visit(h, states[i], acc, t, ic), t, ic)

\* The states after node h from state st
Step(h, st, t, ic) ==
    LET p == st.pos
    IN  CASE h.op = "lit" ->
               IF LitAt(h.s, t, p, ic) THEN <<[st EXCEPT !.pos = p + Len(h.s)]>> ELSE <<>>
          [] h.op = "cls" ->
               LET avail == RunLen(h, t, p, ic)
               IN  IF avail < h.lo THEN <<>>
                   ELSE [k \in 1..(avail - h.lo + 1) |->
                           [st EXCEPT !.pos = IF h.lazy THEN p + h.lo + (k - 1)
                                                ELSE p + avail - (k - 1)]]
          [] h.op = "alt" ->
               Concat([i \in 1..Len(h.alts) |-> Run(h.alts[i], 1, <<st>>, t, ic)])
          [] h.op = "star" -> Visit(h, st, [seen |-> {}, out |-> <<>>], t, ic).out
          [] h.op = "open" -> <<[st EXCEPT !.cs = p]>>
          [] h.op = "close" -> <<[st EXCEPT !.ce = p]>>
          [] h.op = "bol" -> IF p = 1 THEN <<st>> ELSE <<>>
          [] h.op = "eol" ->
               IF p = Len(t) + 1 \/ (p = Len(t) /\ t[p] = "\n") THEN <<st>> ELSE <<>>
          [] h.op = "wb" -> IF IsWordAt(t, p - 1) # IsWordAt(t, p) THEN <<st>> ELSE <<>>

\* The match object for a match from p that can end in the states ends, the first preferred
MatchOf(p, ends) ==
    IF ends = <<>> THEN NoMatch
    ELSE [ok |-> TRUE, start |-> p, end |-> ends[1].pos, cs |-> ends[1].cs, ce |-> ends[1].ce]

\* Match pattern pat at position p of t: the first match in backtracking order
Match(pat, t, p, ic) == MatchOf(p, Run(pat, 1, <<[pos |-> p, cs |-> 0, ce |-> 0]>>, t, ic))

\* The match m if it is one, otherwise the other
OrElse(m, other) == IF m.ok THEN m ELSE other

\* The match at the leftmost position of lo..hi that has one
RECURSIVE SearchIn(_, _, _, _, _)
SearchIn(pat, t, lo, hi, ic) ==
    IF lo = hi THEN Match(pat, t, lo, ic)
    ELSE OrElse(SearchIn(pat, t, lo, (lo + hi) \div 2, ic),
                SearchIn(pat, t, (lo + hi) \div 2 + 1, hi, ic))

\* re.search(pat, t)
re_search(pat, t, ic) == SearchIn(pat, t, 1, Len(t) + 1, ic)

group0(t, m) == SubSeq(t, m.start, m.end - 1)
group1(t, m) == SubSeq(t, m.cs, m.ce - 1)
group1_or_none(t, m) == IF m.ok THEN group1(t, m) ELSE None

\* The last pattern of the list, from index i on, that re.search finds in t
RECURSIVE LastMatching(_, _, _, _)
LastMatching(patterns, i, t, ic) ==
    IF i > Len(patterns) THEN NoMatch
    ELSE OrElse(LastMatching(patterns, i + 1, t, ic), re_search(patterns[i], t, ic))

\* The first pattern of the list, from index i on, that re.search finds in t
RECURSIVE FirstMatching(_, _, _, _)
FirstMatching(patterns, i, t, ic) ==
    IF i > Len(patterns) THEN NoMatch
    ELSE OrElse(re_search(patterns[i], t, ic), FirstMatching(patterns, i + 1, t, ic))

\* re.sub(r'\s+', ' ', s): every run of whitespace becomes one blank
CollapseWs(s) ==
    LET keep == Where(s, LAMBDA i : s[i] \notin Space \/ i = 1 \/ s[i - 1] \notin Space)
    IN  [k \in 1..Len(keep) |-> IF s[keep[k]] \in Space THEN " " ELSE s[keep[k]]]

\* re.sub('[set]', '', s)
RemoveChars(s, S) == SelectSeq(s, LAMBDA c : c \notin S)

----------------------------------------------------------------------------
(* extract_year_from_text (the same in all three scripts) *)

\* The keywords of the date patterns
kw == [
    accepted |-> <<"a","c","c","e","p","t","e","d">>,
    received |-> <<"r","e","c","e","i","v","e","d">>,
    published |-> <<"p","u","b","l","i","s","h","e","d">>,
    available |-> <<"a","v","a","i","l","a","b","l","e">>,
    online |-> <<"o","n","l","i","n","e">> ]

\* <keyword>\s+\d{1,2}\s+\w+\s+(\d{4})
DayMonthYear(keyword) ==
    keyword \o <<Plus(Space), Rep(Digit, 1, 2), Plus(Space), Plus(WordChar), Plus(Space),
                 CapOpen, Rep(Digit, 4, 4), CapClose>>

\* <keyword>\s+\w+\s+\d{1,2},?\s+(\d{4})
MonthDayYear(keyword) ==
    keyword \o <<Plus(Space), Plus(WordChar), Plus(Space), Rep(Digit, 1, 2), Opt({","}),
                 Plus(Space), CapOpen, Rep(Digit, 4, 4), CapClose>>

year_patterns == <<
    DayMonthYear(<<Lit(kw.accepted)>>),
    DayMonthYear(<<Lit(kw.received)>>),
    MonthDayYear(<<Lit(kw.accepted)>>),
    MonthDayYear(<<Lit(kw.received)>>),
    DayMonthYear(<<Lit(kw.published), Plus(Space), Lit(kw.online)>>),
    DayMonthYear(<<Lit(kw.available), Plus(Space), Lit(kw.online)>>) >>

\* (19|20)\d{2} without the two \b
bare_year_pattern_unanchored ==
    <<Alt(<< <<Lit(<<"1","9">>)>>, <<Lit(<<"2","0">>)>> >>), Rep(Digit, 2, 2)>>

\* \b(19|20) alone, without the two digits that follow
bare_year_pattern_century ==
    <<Wb, Alt(<< <<Lit(<<"1","9">>)>>, <<Lit(<<"2","0">>)>> >>)>>

\* \b(19|20)\d{2}\b
bare_year_pattern ==
    <<Wb, Alt(<< <<Lit(<<"1","9">>)>>, <<Lit(<<"2","0">>)>> >>), Rep(Digit, 2, 2), Wb>>

\* year_of with match.group(0), the whole phrase, in place of match.group(1)
year_of_whole_match(text, match, year_match) ==
    IF match.ok THEN group0(text, match)
    ELSE IF year_match.ok THEN group0(text, year_match)
    ELSE None

\* year_of with the empty string in place of None
year_of_empty(text, match, year_match) ==
    IF match.ok THEN group1(text, match)
    ELSE IF year_match.ok THEN group0(text, year_match)
    ELSE <<>>

\* match.group(1) of a pattern match, else year_match.group(0), else None
year_of(text, match, year_match) ==
    IF match.ok THEN group1(text, match)
    ELSE IF year_match.ok THEN group0(text, year_match)
    ELSE None

extract_year_from_text(text) ==
    year_of(text, FirstMatching(year_patterns, 1, text, TRUE),
                  re_search(bare_year_pattern, text, FALSE))

----------------------------------------------------------------------------
(* build-vectordb-with-metadata.py: title, authors, journal *)

\* The literal words of the title, author and journal patterns
word == [
    short_communication |-> <<"S","h","o","r","t"," ","c","o","m","m","u","n","i","c","a","t","i","o","n">>,
    research_report |-> <<"R","e","s","e","a","r","c","h"," ","r","e","p","o","r","t">>,
    brief_report |-> <<"B","r","i","e","f"," ","r","e","p","o","r","t">>,
    review_article |-> <<"R","e","v","i","e","w"," ","a","r","t","i","c","l","e">>,
    Abstract |-> <<"A","b","s","t","r","a","c","t">>,
    Department |-> <<"D","e","p","a","r","t","m","e","n","t">>,
    Centre |-> <<"C","e","n","t","r","e">>,
    Institute |-> <<"I","n","s","t","i","t","u","t","e">>,
    University |-> <<"U","n","i","v","e","r","s","i","t","y">>,
    Journal_of_ |-> <<"J","o","u","r","n","a","l"," ","o","f"," ">>,
    Research |-> <<"R","e","s","e","a","r","c","h">>,
    Science |-> <<"S","c","i","e","n","c","e">>,
    Psychology |-> <<"P","s","y","c","h","o","l","o","g","y">>,
    Neuroscience |-> <<"N","e","u","r","o","s","c","i","e","n","c","e">> ]

TitleMinLen == 10
TitleMaxLen == 300
ContainerTitleMinLen == 5
AuthorsMinLen == 5

\* <marker>\s+(.+?)(?:\s+[A-Z][a-z]+\s+[A-Z][a-z]+(?:,|\s+[a-z])|Abstract|Department)
title_pattern(marker) ==
    <<Lit(marker), Plus(Space),
      CapOpen, Cls({"\n"}, TRUE, 1, -1, TRUE), CapClose,
      Alt(<< <<Plus(Space), One(Upper), Plus(Lower), Plus(Space), One(Upper), Plus(Lower),
               Alt(<< <<Lit(<<",">>)>>, <<Plus(Space), One(Lower)>> >>)>>,
             <<Lit(word.Abstract)>>,
             <<Lit(word.Department)>> >>)>>

title_patterns == <<
    title_pattern(word.short_communication),
    title_pattern(word.research_report),
    title_pattern(word.brief_report),
    title_pattern(word.review_article) >>

\* title = re.sub(r'\s+', ' ', match.group(1).strip())
title_of(captured) == IF captured = None THEN None ELSE CollapseWs(strip(captured))

\* What the i-th title pattern captures in the cleaned text, cleaned up; None without a match
title_capture(clean_text, i) ==
    title_of(group1_or_none(clean_text, re_search(title_patterns[i], clean_text, TRUE)))

\* title_acceptable without the lower limit on the length
title_acceptable_any_length(title) ==
    title # None /\ 0 < Len(title) /\ Len(title) < TitleMaxLen

title_acceptable(title) ==
    title # None /\ TitleMinLen < Len(title) /\ Len(title) < TitleMaxLen

\* The title if it is acceptable, otherwise what the remaining patterns give
title_or(title, remaining) == IF title_acceptable(title) THEN title ELSE remaining

\* The loop over the patterns, from the i-th on
RECURSIVE TitleLoop(_, _)
TitleLoop(clean_text, i) ==
    IF i > Len(title_patterns) THEN None
    ELSE title_or(title_capture(clean_text, i), TitleLoop(clean_text, i + 1))

extract_title_from_text(text) == TitleLoop(join(<<" ">>, split(text)), 1)

\* [A-Z][a-z]+\s+[A-Z]?[a-z]*,?\s*
name_unit ==
    <<One(Upper), Plus(Lower), Plus(Space), Opt(Upper), Star(Lower), Opt({","}), Star(Space)>>

\* (?:Short communication|Research report|Brief report|Review article)\s+[^a-z]*?\s+
\* (<name>(?:<name>)*)\s*[a-z,]*\s*(?:Department|Centre|Institute|University)
author_pattern ==
    <<Alt(<< <<Lit(word.short_communication)>>, <<Lit(word.research_report)>>,
             <<Lit(word.brief_report)>>, <<Lit(word.review_article)>> >>),
      Plus(Space), Cls(Lower, TRUE, 0, -1, TRUE), Plus(Space), CapOpen>>
    \o name_unit \o
    <<StarGroup(name_unit), CapClose, Star(Space), Star(Lower \cup {","}), Star(Space),
      Alt(<< <<Lit(word.Department)>>, <<Lit(word.Centre)>>,
             <<Lit(word.Institute)>>, <<Lit(word.University)>> >>)>>

\* [0-9*...#]: the footnote marks of the class that lie in the modelled alphabet
footnote_marks == Digit \cup {"*", "#"}

\* return authors if len(authors) > 5 else None
authors_or_none(authors) == IF Len(authors) > AuthorsMinLen THEN authors ELSE None

\* The three clean-up steps applied to match.group(1)
authors_of(captured) ==
    IF captured = None THEN None
    ELSE authors_or_none(strip(CollapseWs(RemoveChars(strip(captured), footnote_marks))))

authors_in(clean_text) ==
    authors_of(group1_or_none(clean_text, re_search(author_pattern, clean_text, TRUE)))

extract_authors_from_text(text) == authors_in(join(<<" ">>, split(text)))

s_bbr_lower == <<"b","e","h","a","v","i","o","u","r","a","l"," ","b","r","a","i","n"," ","r","e","s","e","a","r","c","h">>
s_bbr_canonical == <<"B","e","h","a","v","i","o","u","r","a","l"," ","B","r","a","i","n"," ","R","e","s","e","a","r","c","h">>

journal_patterns == <<
    \* (Journal of [A-Z][a-z\s]+)
    <<CapOpen, Lit(word.Journal_of_), One(Upper), Plus(Lower \cup Space), CapClose>>,
    \* ([A-Z][a-z]+\s+(?:Research|Science|Psychology|Neuroscience))
    <<CapOpen, One(Upper), Plus(Lower), Plus(Space),
      Alt(<< <<Lit(word.Research)>>, <<Lit(word.Science)>>,
             <<Lit(word.Psychology)>>, <<Lit(word.Neuroscience)>> >>), CapClose>> >>

\* extract_journal_from_text with the generic patterns tried before the literal phrase
extract_journal_patterns_first(text) ==
    LET match == FirstMatching(journal_patterns, 1, text, TRUE)
    IN  IF match.ok THEN group1(text, match)
        ELSE IF Contains(lower(text), s_bbr_lower) THEN s_bbr_canonical
        ELSE None

extract_journal_from_text(text) ==
    IF Contains(lower(text), s_bbr_lower) THEN s_bbr_canonical
    ELSE group1_or_none(text, FirstMatching(journal_patterns, 1, text, TRUE))

----------------------------------------------------------------------------
(* main.py: the line-scanning title, authors and journal extractors *)

\* The literal words of main.py's patterns and prefixes
main_word == [
    contents |-> <<"c","o","n","t","e","n","t","s">>,
    available_online |-> <<"a","v","a","i","l","a","b","l","e"," ","o","n","l","i","n","e">>,
    published_by |-> <<"p","u","b","l","i","s","h","e","d"," ","b","y">>,
    elsevier |-> <<"e","l","s","e","v","i","e","r">>,
    doi |-> <<"d","o","i",":">>,
    http |-> <<"h","t","t","p">>,
    www |-> <<"w","w","w",".">>,
    journal |-> <<"j","o","u","r","n","a","l">>,
    volume |-> <<"v","o","l","u","m","e">>,
    issue |-> <<"i","s","s","u","e">>,
    page |-> <<"p","a","g","e">>,
    research_paper |-> <<"r","e","s","e","a","r","c","h"," ","p","a","p","e","r">>,
    review |-> <<"r","e","v","i","e","w">>,
    article |-> <<"a","r","t","i","c","l","e">>,
    correspondence |-> <<"c","o","r","r","e","s","p","o","n","d","e","n","c","e">>,
    abstract |-> <<"a","b","s","t","r","a","c","t">>,
    keywords |-> <<"k","e","y","w","o","r","d","s">>,
    introduction |-> <<"i","n","t","r","o","d","u","c","t","i","o","n">>,
    background |-> <<"b","a","c","k","g","r","o","u","n","d">>,
    Brain_Research |-> <<"B","r","a","i","n"," ","R","e","s","e","a","r","c","h">>,
    Journal_of |-> <<"J","o","u","r","n","a","l"," ","o","f">>,
    Volume |-> <<"V","o","l","u","m","e">>,
    Vol |-> <<"V","o","l",".">> ]

TitleScanLines == 20
TitleLineMinLen == 10
TitleLineLongerThan == 20
AuthorScanLines == 30
AuthorLineMinLen == 3
AuthorEntryMaxLen == 200
AuthorMaxEntries == 5
JournalScanLines == 15
JournalMinLen == 5
JournalMaxLen == 100

\* Is some pattern of the list found in line by re.search?
AnyMatches(patterns, line, ic) == \E i \in 1..Len(patterns) : re_search(patterns[i], line, ic).ok

skip_patterns == <<
    \* ^(contents|available online|published by|elsevier|doi:|http|www\.)
    <<Bol, Alt(<< <<Lit(main_word.contents)>>, <<Lit(main_word.available_online)>>, <<Lit(main_word.published_by)>>,
                  <<Lit(main_word.elsevier)>>, <<Lit(main_word.doi)>>, <<Lit(main_word.http)>>, <<Lit(main_word.www)>> >>)>>,
    \* ^\d+$
    <<Bol, Plus(Digit), Eol>>,
    \* ^[A-Z\s]{2,}$
    <<Bol, Rep(Upper \cup Space, 2, -1), Eol>>,
    \* (journal|volume|issue|page|\d{4}.*elsevier)
    <<Alt(<< <<Lit(main_word.journal)>>, <<Lit(main_word.volume)>>, <<Lit(main_word.issue)>>, <<Lit(main_word.page)>>,
             <<Rep(Digit, 4, 4), Cls({"\n"}, TRUE, 0, -1, FALSE), Lit(main_word.elsevier)>> >>)>>,
    \* ^(research paper|review|article|correspondence)
    <<Bol, Alt(<< <<Lit(main_word.research_paper)>>, <<Lit(main_word.review)>>,
                  <<Lit(main_word.article)>>, <<Lit(main_word.correspondence)>> >>)>>,
    \* ^(received|accepted|available|published)
    <<Bol, Alt(<< <<Lit(kw.received)>>, <<Lit(kw.accepted)>>,
                  <<Lit(kw.available)>>, <<Lit(kw.published)>> >>)>> >>

\* Does the stripped line qualify as a title (lines 105-116)?
title_line_qualifies(line) ==
    /\ ~(Len(line) < TitleLineMinLen)
    /\ ~AnyMatches(skip_patterns, line, TRUE)
    /\ Len(line) > TitleLineLongerThan
    /\ ~isupper(line)
    /\ ~\E w \in {main_word.abstract, main_word.keywords, main_word.introduction, main_word.background} :
           startswith(lower(line), w)

\* line[:300] if the stripped line qualifies, otherwise what the remaining lines give
line_or(line, remaining) ==
    IF title_line_qualifies(line) THEN Prefix(line, TitleMaxLen) ELSE remaining

RECURSIVE MainTitleLoop(_, _)
MainTitleLoop(lines, i) ==
    IF i > Len(lines) THEN None
    ELSE line_or(strip(lines[i]), MainTitleLoop(lines, i + 1))

main_extract_title_from_text(text) ==
    MainTitleLoop(Prefix(split_lines(text), TitleScanLines), 1)

\* [A-Z][a-z]+
cap_word == <<One(Upper), Plus(Lower)>>

author_indicators == <<
    \* ^[A-Z][a-z]+\s+[A-Z]\.
    <<Bol>> \o cap_word \o <<Plus(Space), One(Upper), Lit(<<".">>)>>,
    \* ^[A-Z][a-z]+,\s*[A-Z]\.
    <<Bol>> \o cap_word \o <<Lit(<<",">>), Star(Space), One(Upper), Lit(<<".">>)>>,
    \* [A-Z][a-z]+\s+[A-Z][a-z]+(?:\s+[A-Z][a-z]+)*\s*[a-z]*
    cap_word \o <<Plus(Space)>> \o cap_word
        \o <<StarGroup(<<Plus(Space)>> \o cap_word), Star(Space), Star(Lower)>> >>

\* re.sub(r'\s+', ' ', re.sub(r'[0-9*...#]', '', line)).strip()
clean_author_line(line) == strip(CollapseWs(RemoveChars(line, footnote_marks)))

has_lowercase(line) == \E i \in 1..Len(line) : line[i] \in Lower

RECURSIVE AuthorsLoop(_, _, _, _)
RECURSIVE ScanLine(_, _, _, _, _)
RECURSIVE AddAuthor(_, _, _, _, _)

\* The loop over lines[:30] from the i-th line on; authors is the list so far
AuthorsLoop(lines, i, authors, in_author_section) ==
    IF i > Len(lines) THEN authors
    ELSE ScanLine(lines, i, authors, in_author_section, strip(lines[i]))

\* ScanLine without the break: the loop goes on to the last line whatever it meets
ScanLine_no_break(lines, i, authors, in_author_section, line) ==
    IF Len(line) < AuthorLineMinLen
    THEN AuthorsLoop(lines, i + 1, authors, in_author_section)
    ELSE IF AnyMatches(author_indicators, line, FALSE)
    THEN AddAuthor(lines, i, authors, in_author_section, clean_author_line(line))
    ELSE AuthorsLoop(lines, i + 1, authors, in_author_section)

\* One round of the loop on the stripped line: skipped when short, added when an
\* indicator matches, the end of the loop when authors were found before and the line
\* matches no indicator and has no lowercase letter
ScanLine(lines, i, authors, in_author_section, line) ==
    IF Len(line) < AuthorLineMinLen
    THEN AuthorsLoop(lines, i + 1, authors, in_author_section)
    ELSE IF AnyMatches(author_indicators, line, FALSE)
    THEN AddAuthor(lines, i, authors, in_author_section, clean_author_line(line))
    ELSE IF in_author_section /\ ~has_lowercase(line)
    THEN authors
    ELSE AuthorsLoop(lines, i + 1, authors, in_author_section)

\* if len(author_line) > 2 and len(author_line) < 200: authors.append(author_line)
AddAuthor(lines, i, authors, in_author_section, author_line) ==
    IF Len(author_line) > 2 /\ Len(author_line) < AuthorEntryMaxLen
    THEN AuthorsLoop(lines, i + 1, Append(authors, author_line), TRUE)
    ELSE AuthorsLoop(lines, i + 1, authors, in_author_section)

\* The list of author entries the scan collects
main_author_entries(text) ==
    AuthorsLoop(Prefix(split_lines(text), AuthorScanLines), 1, <<>>, FALSE)

\* '; '.join(authors[:5]) if authors else None
joined(authors) ==
    IF authors # <<>> THEN join(<<";", " ">>, Prefix(authors, AuthorMaxEntries)) ELSE None

main_extract_authors_from_text(text) == joined(main_author_entries(text))

main_journal_patterns == <<
    \* (Behavioural Brain Research|Brain Research|Neuroscience|Psychology|Journal of)
    <<CapOpen, Alt(<< <<Lit(s_bbr_canonical)>>, <<Lit(main_word.Brain_Research)>>, <<Lit(word.Neuroscience)>>,
                      <<Lit(word.Psychology)>>, <<Lit(main_word.Journal_of)>> >>), CapClose>>,
    \* ^\s*([A-Z][a-z]+\s+[A-Z][a-z]+(?:\s+[A-Z][a-z]+)*)\s*\d+
    <<Bol, Star(Space), CapOpen>> \o cap_word \o <<Plus(Space)>> \o cap_word
        \o <<StarGroup(<<Plus(Space)>> \o cap_word), CapClose, Star(Space), Plus(Digit)>>,
    \* ^\s*([A-Z][a-z]+(?:\s+[A-Z][a-z]+)*)\s*(?:Volume|Vol\.)
    <<Bol, Star(Space), CapOpen>> \o cap_word
        \o <<StarGroup(<<Plus(Space)>> \o cap_word), CapClose, Star(Space),
             Alt(<< <<Lit(main_word.Volume)>>, <<Lit(main_word.Vol)>> >>)>> >>

\* re.sub(r'\d+.*$', '', journal): within a line, everything from the first digit on goes
CutAtDigit(s) ==
    LET digits == Where(s, LAMBDA i : s[i] \in Digit)
    IN  IF digits = <<>> THEN s ELSE SubSeq(s, 1, digits[1] - 1)

\* journal = re.sub(r'\d+.*$', '', journal).strip()
journal_of(captured) == IF captured = None THEN None ELSE strip(CutAtDigit(captured))

\* The journal the j-th pattern yields on the line, cleaned up; None without a match
journal_capture(line, j) ==
    journal_of(group1_or_none(line, re_search(main_journal_patterns[j], line, TRUE)))

journal_acceptable(journal) ==
    journal # None /\ Len(journal) > JournalMinLen /\ Len(journal) < JournalMaxLen

\* The journal if it is acceptable, otherwise what the rest of the scan gives
journal_or(journal, remaining) == IF journal_acceptable(journal) THEN journal ELSE remaining

\* The loop over lines[:15] and, inside, over the patterns
RECURSIVE MainJournalLoop(_, _, _)
MainJournalLoop(lines, i, j) ==
    IF i > Len(lines) THEN None
    ELSE IF j > Len(main_journal_patterns) THEN MainJournalLoop(lines, i + 1, 1)
    ELSE journal_or(journal_capture(strip(lines[i]), j), MainJournalLoop(lines, i, j + 1))

\* The journal of the scan, otherwise the fallback on the whole text
journal_or_fallback(journal, text) ==
    IF journal # None THEN journal
    ELSE IF Contains(lower(text), s_bbr_lower) THEN s_bbr_canonical
    ELSE None

main_extract_journal_from_text(text) ==
    journal_or_fallback(MainJournalLoop(Prefix(split_lines(text), JournalScanLines), 1, 1), text)

----------------------------------------------------------------------------
(* Inputs *)

\* All concatenations of at most n of the pieces
RECURSIVE Texts(_, _)
Texts(pieces, n) ==
    IF n = 0 THEN {<<>>}
    ELSE LET shorter == Texts(pieces, n - 1)
         IN  shorter \cup {t \o p : t \in shorter, p \in pieces}

MaxPagePieces == 2
MaxYearPieces == 3
MaxTitlePieces == 2
MaxJournalPieces == 3
MaxAuthorPieces == 3

t_end_to_end == <<"R","e","s","e","a","r","c","h"," ","r","e","p","o","r","t"," ","E","f","f","e","c","t","s"," ","o","f"," ","X"," ","o","n"," ","Y",".","\n","J","a","n","e"," ","S","m","i","t","h",","," ","J","o","h","n"," ","D","o","e","\n","D","e","p","a","r","t","m","e","n","t"," ","o","f"," ","P","s","y","c","h","o","l","o","g","y">>
l_accepted == <<"a","c","c","e","p","t","e","d"," ","1","6"," ","M","a","r","c","h"," ","2","0","0","6","\n">>
l_bare_year == <<"P","r","i","n","t","e","d"," ","i","n"," ","1","9","9","8","\n">>
l_journal == <<"B","e","h","a","v","i","o","u","r","a","l"," ","B","r","a","i","n"," ","R","e","s","e","a","r","c","h"," ","2","7","2","\n">>
l_title == <<"R","e","s","e","a","r","c","h"," ","r","e","p","o","r","t"," ","E","f","f","e","c","t","s"," ","o","f"," ","X"," ","o","n"," ","Y","."," ","A","b","s","t","r","a","c","t","\n">>
l_authors == <<"J","a","n","e"," ","S","m","i","t","h",","," ","J","o","h","n"," ","D","o","e","\n">>

l_no_year == <<"a","c","c","e","p","t","e","d"," ","x","1","9","9","8"," ","1","9","9","8","5","\n">>

PagePieces == {l_accepted, l_bare_year, l_journal, l_title, l_authors, l_no_year}
PageTexts == Texts(PagePieces, MaxPagePieces) \cup {t_end_to_end}

ct_short_padded == <<" "," ","H","i"," "," ">>
ct_padded == <<" ","T","i","t","l","e","1"," ">>
ct_long == [i \in 1..(TitleMaxLen + 1) |-> IF i % 7 = 3 THEN " " ELSE "x"]

ct_parenthesised == <<"(","T","i","t","l","e","1",")">>

\* The container titles a PDF may carry: none, empty, short once stripped, padded, over-long,
\* beginning with a punctuation character
ContainerTitles == {None, <<>>, ct_short_padded, ct_padded, ct_long, ct_parenthesised}

Scripts == {"build-vectordb-with-metadata.py", "main.py"}
BuildScript == "build-vectordb-with-metadata.py"
MainScript == "main.py"
SplitScript == "split-psych.py"

FileNames == {"paper.pdf"}

\* main.py never looks at the container title
Pdfs(s) ==
    LET titles == IF s = BuildScript THEN ContainerTitles ELSE {None}
    IN  [name : FileNames, title : titles, pages : {1}, text : PageTexts]
        \cup [name : FileNames, title : titles, pages : {0}, text : {<<>>}]

NoPdf == [name |-> "", title |-> None, pages |-> 0, text |-> <<>>]
NoFields == [year |-> None, title |-> None, authors |-> None, journal |-> None]
NoRecord == [source |-> "", year |-> None, title |-> None, authors |-> None, journal |-> None]

----------------------------------------------------------------------------
(* extract_metadata_from_pdf *)

\* Begin with one record shared by all calls, in place of a fresh one for each call
Begin_shared_record ==
    /\ pc = "begin"
    /\ metadata' = [metadata EXCEPT !.source = pdf.name]
    /\ pc' = "open"
    /\ UNCHANGED <<script, pdf, pdf_metadata, found, calls, opened, raised, fn, arg, ret, batch_vars>>

\* metadata = {'source': pdf_path.name, 'year': None, ...}
Begin ==
    /\ pc = "begin"
    /\ metadata' = [NoRecord EXCEPT !.source = pdf.name]
    /\ pc' = "open"
    /\ UNCHANGED <<script, pdf, pdf_metadata, found, calls, opened, raised, fn, arg, ret, batch_vars>>

\* Handler with fitz.open placed before the try block: its exception leaves the function
Handler_open_before_try(step) == IF step = "open" THEN "propagated" ELSE "except"

\* Where control goes when the step raises: every step lies inside the try block
Handler(step) == "except"

Raise(step) ==
    /\ raised' = step
    /\ pc' = Handler(step)

\* doc = fitz.open(str(pdf_path))
Open ==
    /\ pc = "open"
    /\ \/ /\ opened' = opened + 1
          /\ pc' = IF script = BuildScript THEN "read_metadata" ELSE "count_pages"
          /\ UNCHANGED raised
       \/ /\ Raise("open")
          /\ UNCHANGED opened
    /\ UNCHANGED <<script, pdf, pdf_metadata, found, calls, metadata, fn, arg, ret, batch_vars>>

\* container_title without the two .strip()
container_title_verbatim(t) ==
    IF Truthy(t) /\ Len(t) > ContainerTitleMinLen
    THEN Prefix(t, TitleMaxLen)
    ELSE None

\* The title taken from the container metadata, None when it is not usable
container_title(t) ==
    IF Truthy(t) /\ Len(strip(t)) > ContainerTitleMinLen
    THEN Prefix(strip(t), TitleMaxLen)
    ELSE None

\* pdf_metadata = doc.metadata and the title from it (build-vectordb-with-metadata.py)
ReadContainerTitle ==
    /\ pc = "read_metadata"
    /\ \/ /\ pdf_metadata' = pdf.title
          /\ metadata' = [metadata EXCEPT !.title = container_title(pdf.title)]
          /\ pc' = "count_pages"
          /\ UNCHANGED raised
       \/ /\ Raise("read_metadata")
          /\ UNCHANGED <<pdf_metadata, metadata>>
    /\ UNCHANGED <<script, pdf, found, calls, opened, fn, arg, ret, batch_vars>>

\* if len(doc) > 0
CountPages ==
    /\ pc = "count_pages"
    /\ \/ /\ pc' = IF pdf.pages > 0 THEN "read_page" ELSE "close"
          /\ UNCHANGED raised
       \/ Raise("count_pages")
    /\ UNCHANGED <<script, pdf, pdf_metadata, found, calls, metadata, opened, fn, arg, ret, batch_vars>>

\* first_page = doc[0].get_text()
ReadFirstPage ==
    /\ pc = "read_page"
    /\ \/ /\ pc' = "extract"
          /\ UNCHANGED raised
       \/ Raise("read_page")
    /\ UNCHANGED <<script, pdf, pdf_metadata, found, calls, metadata, opened, fn, arg, ret, batch_vars>>

\* A field of the record after "if value: metadata[field] = value"
Store(old, value) == IF Truthy(value) THEN value ELSE old

\* The four extractions of build-vectordb-with-metadata.py
ExtractFields ==
    /\ pc = "extract"
    /\ script = BuildScript
    /\ found' = [year |-> extract_year_from_text(pdf.text),
                 title |-> IF ~Truthy(metadata.title)
                           THEN extract_title_from_text(pdf.text) ELSE None,
                 authors |-> extract_authors_from_text(pdf.text),
                 journal |-> extract_journal_from_text(pdf.text)]
    /\ calls' = {"extract_year_from_text", "extract_authors_from_text",
                 "extract_journal_from_text"}
                \cup (IF ~Truthy(metadata.title) THEN {"extract_title_from_text"} ELSE {})
    /\ metadata' = [metadata EXCEPT !.year = Store(@, found'.year),
                                    !.title = Store(@, found'.title),
                                    !.authors = Store(@, found'.authors),
                                    !.journal = Store(@, found'.journal)]
    /\ pc' = "close"
    /\ UNCHANGED <<script, pdf, pdf_metadata, opened, raised, fn, arg, ret, batch_vars>>

\* The four extractions of main.py
MainExtractFields ==
    /\ pc = "extract"
    /\ script = MainScript
    /\ found' = [year |-> extract_year_from_text(pdf.text),
                 title |-> main_extract_title_from_text(pdf.text),
                 authors |-> main_extract_authors_from_text(pdf.text),
                 journal |-> main_extract_journal_from_text(pdf.text)]
    /\ calls' = {"extract_year_from_text", "extract_title_from_text",
                 "extract_authors_from_text", "extract_journal_from_text"}
    /\ metadata' = [metadata EXCEPT !.year = Store(@, found'.year),
                                    !.title = Store(@, found'.title),
                                    !.authors = Store(@, found'.authors),
                                    !.journal = Store(@, found'.journal)]
    /\ pc' = "close"
    /\ UNCHANGED <<script, pdf, pdf_metadata, opened, raised, fn, arg, ret, batch_vars>>

\* doc.close()
Close ==
    /\ pc = "close"
    /\ \/ /\ opened' = opened - 1
          /\ pc' = "return"
          /\ UNCHANGED raised
       \/ /\ Raise("close")
          /\ UNCHANGED opened
    /\ UNCHANGED <<script, pdf, pdf_metadata, found, calls, metadata, fn, arg, ret, batch_vars>>

\* except Exception as e: print(...)
Except ==
    /\ pc = "except"
    /\ pc' = "return"
    /\ UNCHANGED <<script, pdf, pdf_metadata, found, calls, metadata, opened, raised, fn, arg, ret, batch_vars>>

\* return metadata
Return ==
    /\ pc = "return"
    /\ pc' = "done"
    /\ UNCHANGED <<script, pdf, pdf_metadata, found, calls, metadata, opened, raised, fn, arg, ret, batch_vars>>

\* No batch is running
NoBatch ==
    /\ pdf_files = <<>>
    /\ outcomes = <<>>
    /\ documents = <<>>
    /\ metadata_list = <<>>
    /\ sections = <<>>

Init ==
    /\ NoBatch
    /\ script \in Scripts
    /\ pdf \in Pdfs(script)
    /\ pc = "begin"
    /\ pdf_metadata = None
    /\ found = NoFields
    /\ calls = {}
    /\ metadata = NoRecord
    /\ opened = 0
    /\ raised = "none"
    /\ fn = "none"
    /\ arg = <<>>
    /\ ret = None

Next ==
    \/ Begin
    \/ Open
    \/ ReadContainerTitle
    \/ CountPages
    \/ ReadFirstPage
    \/ ExtractFields
    \/ MainExtractFields
    \/ Close
    \/ Except
    \/ Return

Spec == Init /\ [][Next]_vars

----------------------------------------------------------------------------
(* An extractor applied on its own to a text: extract_metadata_from_pdf is idle *)

Idle ==
    /\ NoBatch
    /\ pdf = NoPdf
    /\ pc = "idle"
    /\ pdf_metadata = None
    /\ found = NoFields
    /\ calls = {}
    /\ metadata = NoRecord
    /\ opened = 0
    /\ raised = "none"

machine_vars == <<script, pdf, pc, pdf_metadata, found, calls, metadata, opened, raised,
                  batch_vars>>

(* extract_year_from_text on texts made of dated phrases, bare years and a letter *)

y_accepted_2006 == <<"a","c","c","e","p","t","e","d"," ","1","6"," ","M","a","r","c","h"," ","2","0","0","6"," ">>
y_accepted_1999 == <<"a","c","c","e","p","t","e","d"," ","5"," ","M","a","y"," ","1","9","9","9"," ">>
y_received_2004 == <<"r","e","c","e","i","v","e","d"," ","3"," ","J","u","n","e"," ","2","0","0","4"," ">>
y_accepted_mdy_2007 == <<"A","c","c","e","p","t","e","d"," ","M","a","r","c","h"," ","1","6",","," ","2","0","0","7"," ">>
y_1998 == <<"1","9","9","8"," ">>
y_1975 == <<"1","9","7","5"," ">>
y_x == <<"x">>

YearPieces == {y_accepted_2006, y_accepted_1999, y_received_2004, y_accepted_mdy_2007,
               y_1998, y_1975, y_x}
YearTexts == Texts(YearPieces, MaxYearPieces)

YearInit ==
    /\ Idle
    /\ script \in {BuildScript, MainScript, SplitScript}
    /\ fn = "none"
    /\ arg \in YearTexts
    /\ ret = None

\* year = extract_year_from_text(first_page), the same function in the three scripts
CallYear ==
    /\ fn = "none"
    /\ fn' = "extract_year_from_text"
    /\ ret' = extract_year_from_text(arg)
    /\ UNCHANGED <<arg, machine_vars>>

YearNext == CallYear

SpecYear == YearInit /\ [][YearNext]_vars

s_accepted_16_March_2006 == <<"a","c","c","e","p","t","e","d"," ","1","6"," ","M","a","r","c","h"," ","2","0","0","6">>
s_2006 == <<"2","0","0","6">>
s_1998 == <<"1","9","9","8">>

\* The places of text t at which the string w starts
Occurrences(t, w) == {p \in 1..(Len(t) - Len(w) + 1) : SubSeq(t, p, p + Len(w) - 1) = w}

\* Is there a standalone four-digit token beginning with 19 or 20 at place p of t?
IsBareYearAt(t, p) ==
    /\ p + 3 <= Len(t)
    /\ SubSeq(t, p, p + 1) \in {<<"1","9">>, <<"2","0">>}
    /\ t[p + 2] \in Digit /\ t[p + 3] \in Digit
    /\ (p = 1 \/ t[p - 1] \notin WordChar)
    /\ (p + 3 = Len(t) \/ t[p + 4] \notin WordChar)

\* Does one of the six date-keyword patterns match somewhere in t?
HasDatePhrase(t) == FirstMatching(year_patterns, 1, t, TRUE).ok

\* C1 as stated: whenever the text contains "accepted 16 March 2006", the year returned
\* is "2006", whatever else the text contains.
C1_AcceptedAnywhere ==
    (fn = "extract_year_from_text" /\ Occurrences(arg, s_accepted_16_March_2006) # {})
        => ret = s_2006

\* C1, amended: when "accepted 16 March 2006" is the first place of the text at which
\* the pattern "accepted <day> <word> <four digits>" matches, the year returned is "2006".
C1_AcceptedFirst ==
    fn = "extract_year_from_text" =>
        \A p \in Occurrences(arg, s_accepted_16_March_2006) :
            re_search(year_patterns[1], arg, TRUE).start = p => ret = s_2006

\* C1's case: the phrase comes after other text, it is the first accepted date, and the
\* year returned is "2006"
C1_Witness ==
    /\ fn = "extract_year_from_text"
    /\ \E p \in Occurrences(arg, s_accepted_16_March_2006) :
          p > 1 /\ re_search(year_patterns[1], arg, TRUE).start = p
    /\ ret = s_2006

\* C2 as stated: a text without a date-keyword phrase that contains a bare token "1998"
\* gives the year "1998".
C2_BareAnywhere ==
    (/\ fn = "extract_year_from_text"
     /\ ~HasDatePhrase(arg)
     /\ \E p \in Occurrences(arg, s_1998) : IsBareYearAt(arg, p))
        => ret = s_1998

\* C2, amended: a text without a date-keyword phrase in which the bare token "1998" is
\* the first standalone four-digit token beginning with 19 or 20 gives the year "1998".
C2_BareFirst ==
    (fn = "extract_year_from_text" /\ ~HasDatePhrase(arg)) =>
        \A p \in Occurrences(arg, s_1998) :
            (IsBareYearAt(arg, p) /\ \A q \in 1..(p - 1) : ~IsBareYearAt(arg, q))
                => ret = s_1998

\* C2's case: "1998" is the first standalone year, after a year that is part of a longer
\* word, and it is returned
C2_Witness ==
    /\ fn = "extract_year_from_text"
    /\ ~HasDatePhrase(arg)
    /\ \E p \in Occurrences(arg, s_1998) :
          /\ p > 4
          /\ IsBareYearAt(arg, p)
          /\ \A q \in 1..(p - 1) : ~IsBareYearAt(arg, q)
    /\ ret = s_1998

(* extract_metadata_from_pdf: the year and the container title *)

\* Does t match none of the six date-keyword patterns and hold no standalone year?
NoYearForm(t) == ~HasDatePhrase(t) /\ \A p \in 1..Len(t) : ~IsBareYearAt(t, p)

\* The first pages of the model of which that is true
YearlessPages == {t \in PageTexts : NoYearForm(t)}

\* C3: for a first page that matches none of the six date-keyword patterns and holds no
\* standalone four-digit token beginning with 19 or 20, extract_year_from_text returns
\* None, not the empty string, and the record's year stays None.
C3_YearAbsent ==
    pdf.text \in YearlessPages => found.year = None /\ metadata.year = None

\* C3's case: the year was looked for in a non-empty page without a year, that holds
\* digits and a date keyword all the same, and the record is returned without a year
C3_Witness ==
    /\ pc = "done"
    /\ "extract_year_from_text" \in calls
    /\ Contains(pdf.text, l_no_year)
    /\ pdf.text \in YearlessPages
    /\ metadata.year = None

s_Title1 == <<"T","i","t","l","e","1">>

\* C4 as stated: a container title of at least 6 characters is the record's title
\* verbatim, cut to 300 characters, and extract_title_from_text is not called.
C4_ContainerVerbatim ==
    (Truthy(pdf_metadata) /\ Len(pdf_metadata) >= 6) =>
        /\ metadata.title = Prefix(pdf_metadata, 300)
        /\ "extract_title_from_text" \notin calls

\* C4, amended: a container title that has at least 6 characters once stripped of the
\* whitespace around it is the record's title in that stripped form, cut to 300
\* characters, whatever the first page says, and extract_title_from_text is not called.
C4_ContainerStripped ==
    (Truthy(pdf_metadata) /\ Len(strip(pdf_metadata)) >= 6) =>
        /\ metadata.title = Prefix(strip(pdf_metadata), 300)
        /\ "extract_title_from_text" \notin calls

\* C4's case: the padded container title " Title1 " became the title "Title1" of a
\* document whose first page carries a section-marker title, and the other extractors ran
C4_Witness ==
    /\ pc = "done"
    /\ pdf_metadata = ct_padded
    /\ Contains(pdf.text, l_title)
    /\ metadata.title = s_Title1
    /\ calls = {"extract_year_from_text", "extract_authors_from_text",
                "extract_journal_from_text"}

(* extract_title_from_text of build-vectordb-with-metadata.py on texts made of marked *)
(* sections with titles of 1, 5, 10 and 18 characters *)

x_short_research == <<"R","e","s","e","a","r","c","h"," ","r","e","p","o","r","t"," ","H","e","l","l","o"," ","A","b","s","t","r","a","c","t"," ">>
x_good_brief == <<"B","r","i","e","f"," ","r","e","p","o","r","t"," ","E","f","f","e","c","t","s"," ","o","f"," ","X"," ","o","n"," ","Y","."," ","A","b","s","t","r","a","c","t"," ">>
x_good_research == <<"R","e","s","e","a","r","c","h"," ","r","e","p","o","r","t"," ","E","f","f","e","c","t","s"," ","o","f"," ","X"," ","o","n"," ","Y","."," ","A","b","s","t","r","a","c","t"," ">>
x_short_brief == <<"B","r","i","e","f"," ","r","e","p","o","r","t"," ","H","e","l","l","o"," ","D","e","p","a","r","t","m","e","n","t"," ">>
x_ten_short_communication == <<"S","h","o","r","t"," ","c","o","m","m","u","n","i","c","a","t","i","o","n"," ","T","e","n"," ","c","h","a","r","s","!"," ","A","b","s","t","r","a","c","t"," ">>
x_one_review == <<"R","e","v","i","e","w"," ","a","r","t","i","c","l","e"," ","A"," ","S","t","u","d","y"," ","o","f"," ","M","e","m","o","r","y"," ","J","a","n","e"," ","S","m","i","t","h",","," ">>
x_plain == <<"H","e","l","l","o"," ">>
x_names == <<"J","a","n","e"," ","S","m","i","t","h",","," ">>

TitlePieces == {x_short_research, x_good_brief, x_good_research, x_short_brief,
                x_ten_short_communication, x_one_review, x_plain, x_names}
TitleTexts == Texts(TitlePieces, MaxTitlePieces)

TitleInit ==
    /\ Idle
    /\ script = BuildScript
    /\ fn = "none"
    /\ arg \in TitleTexts
    /\ ret = None

\* title = extract_title_from_text(first_page)
CallTitle ==
    /\ fn = "none"
    /\ fn' = "extract_title_from_text"
    /\ ret' = extract_title_from_text(arg)
    /\ UNCHANGED <<arg, machine_vars>>

TitleNext == CallTitle

SpecTitle == TitleInit /\ [][TitleNext]_vars

\* What the marker patterns capture in text t, each cleaned as the function cleans it
MarkerCaptures(t) ==
    {title_capture(join(<<" ">>, split(t)), i) : i \in 1..Len(title_patterns)} \ {None}

j_bbr_lower == <<"b","e","h","a","v","i","o","u","r","a","l"," ","b","r","a","i","n"," ","r","e","s","e","a","r","c","h","\n">>
j_bbr_volume == <<"B","e","h","a","v","i","o","u","r","a","l"," ","B","r","a","i","n"," ","R","e","s","e","a","r","c","h"," ","2","7","2","\n">>
j_bbr_upper == <<"B","E","H","A","V","I","O","U","R","A","L"," ","B","R","A","I","N"," ","R","E","S","E","A","R","C","H","\n">>
j_journal_of == <<"J","o","u","r","n","a","l"," ","o","f"," ","M","e","m","o","r","y","\n">>
j_science == <<"B","r","a","i","n"," ","S","c","i","e","n","c","e"," ","1","2","\n">>
j_plain == <<"s","o","m","e"," ","t","e","x","t","\n">>

JournalPieces == {j_bbr_lower, j_bbr_volume, j_bbr_upper, j_journal_of, j_science, j_plain}
JournalTexts == Texts(JournalPieces, MaxJournalPieces)

JournalInit ==
    /\ Idle
    /\ script \in {BuildScript, MainScript}
    /\ fn = "none"
    /\ arg \in JournalTexts
    /\ ret = None

\* journal = extract_journal_from_text(first_page) in build-vectordb-with-metadata.py
CallJournal ==
    /\ script = BuildScript
    /\ fn = "none"
    /\ fn' = "extract_journal_from_text"
    /\ ret' = extract_journal_from_text(arg)
    /\ UNCHANGED <<arg, machine_vars>>

\* journal = extract_journal_from_text(first_page) in main.py
CallMainJournal ==
    /\ script = MainScript
    /\ fn = "none"
    /\ fn' = "extract_journal_from_text"
    /\ ret' = main_extract_journal_from_text(arg)
    /\ UNCHANGED <<arg, machine_vars>>

JournalNext == CallJournal \/ CallMainJournal

SpecJournal == JournalInit /\ [][JournalNext]_vars

\* Does t contain "behavioural brain research" in some letter case?
HasPhrase(t) ==
    \E p \in 1..(Len(t) - Len(s_bbr_lower) + 1) :
        \A k \in 1..Len(s_bbr_lower) : ToLower(t[p + k - 1]) = s_bbr_lower[k]

a_smith_doe == <<"S","m","i","t","h",","," ","J",".",";"," ","D","o","e",","," ","A",".","\n">>
a_blank == <<"\n">>
a_results == <<"R","E","S","U","L","T","S","\n">>
a_jane_roe == <<"J","a","n","e"," ","R","o","e","\n">>
a_digits == <<"1","2","\n">>
a_prose == <<"t","h","e"," ","e","n","d","\n">>

AuthorPieces == {a_smith_doe, a_blank, a_results, a_jane_roe, a_digits, a_prose}
AuthorTexts == Texts(AuthorPieces, MaxAuthorPieces)

AuthorsInit ==
    /\ Idle
    /\ script = MainScript
    /\ fn = "none"
    /\ arg \in AuthorTexts
    /\ ret = None

\* authors = extract_authors_from_text(first_page) in main.py
CallMainAuthors ==
    /\ fn = "none"
    /\ fn' = "extract_authors_from_text"
    /\ ret' = main_extract_authors_from_text(arg)
    /\ UNCHANGED <<arg, machine_vars>>

AuthorsNext == CallMainAuthors

SpecAuthors == AuthorsInit /\ [][AuthorsNext]_vars

s_Smith_Doe == <<"S","m","i","t","h",","," ","J",".",";"," ","D","o","e",","," ","A",".">>
s_RESULTS == <<"R","E","S","U","L","T","S">>
s_Jane_Roe == <<"J","a","n","e"," ","R","o","e">>

\* The text that ends with the i-th of the lines
UpToLine(lines, i) == join(<<"\n">>, SubSeq(lines, 1, i))

\* C7 as stated: when the line "Smith, J.; Doe, A." is immediately followed by a line
\* without lowercase letters, nothing after that line is added: the result is what the
\* text up to the author line gives.
C7_StopsAtAnyBoundary ==
    fn = "extract_authors_from_text" =>
        LET lines == split_lines(arg)
        IN  \A i \in 1..(Len(lines) - 1) :
                (lines[i] = s_Smith_Doe /\ ~has_lowercase(lines[i + 1]))
                    => ret = main_extract_authors_from_text(UpToLine(lines, i))

\* C7, amended: when the line "Smith, J.; Doe, A." is immediately followed by a line
\* without lowercase letters that has at least 3 characters once stripped, nothing
\* after that line is added: the result is what the text up to the author line gives.
C7_StopsAtBoundary ==
    fn = "extract_authors_from_text" =>
        LET lines == split_lines(arg)
        IN  \A i \in 1..(Len(lines) - 1) :
                (/\ lines[i] = s_Smith_Doe
                 /\ ~has_lowercase(lines[i + 1])
                 /\ Len(strip(lines[i + 1])) >= 3)
                    => ret = main_extract_authors_from_text(UpToLine(lines, i))

\* C7's case: the author line, then the heading RESULTS, then a line that would count as
\* an author, and the result is the author line alone
C7_Witness ==
    /\ fn = "extract_authors_from_text"
    /\ split_lines(arg) = <<s_Smith_Doe, s_RESULTS, s_Jane_Roe, <<>> >>
    /\ ret = s_Smith_Doe

(* extract_metadata_from_pdf: the whole record, and exceptions *)

s_Effects == <<"E","f","f","e","c","t","s"," ","o","f"," ","X"," ","o","n"," ","Y",".">>
s_Jane_Smith == <<"J","a","n","e"," ","S","m","i","t","h">>
s_John_Doe == <<"J","o","h","n"," ","D","o","e">>

\* C8: for the first page "Research report Effects of X on Y.\nJane Smith, John Doe\n
\* Department of Psychology" and no container title, the record returned has the title
\* "Effects of X on Y.", authors that contain "Jane Smith" and "John Doe", and neither
\* year nor journal.
C8_EndToEnd ==
    (/\ pc = "done"
     /\ raised = "none"
     /\ pdf.pages > 0
     /\ pdf.title = None
     /\ pdf.text = t_end_to_end) =>
        /\ metadata.title = s_Effects
        /\ Contains(metadata.authors, s_Jane_Smith)
        /\ Contains(metadata.authors, s_John_Doe)
        /\ metadata.year = None
        /\ metadata.journal = None

\* C9: extract_metadata_from_pdf never lets an exception out, whatever the document, and
\* the record it returns carries the file name as its source.
C9_NeverRaises ==
    /\ pc # "propagated"
    /\ pc \in {"return", "done"} => metadata.source = pdf.name /\ metadata.source # ""

\* C9's worst case: the document could not be opened, and the record returned holds the
\* source and nothing else
C9_Witness ==
    /\ pc = "done"
    /\ raised = "open"
    /\ metadata = [NoRecord EXCEPT !.source = pdf.name]

\* C10: when opening the document, reading its container metadata or reading its first
\* page raised, the record returned has no field but the source.
C10_SourceOnlyAfterException ==
    (pc = "done" /\ raised \in {"open", "read_metadata", "read_page"})
        => metadata = [NoRecord EXCEPT !.source = pdf.name]

----------------------------------------------------------------------------
(* The shape of the fields of a record *)

Punctuation == {".", ",", ";", ":", "!", "?", "-", "(", ")", "*", "#", "_", "'"}

\* C11: in every record the title, when present, is at most 300 characters long and does
\* not begin with a punctuation or whitespace character.
C11_TitleBoundedAndClean ==
    Truthy(metadata.title)
        => /\ Len(metadata.title) <= TitleMaxLen
           /\ metadata.title[1] \notin Punctuation \cup Space

\* C12: in every record the year, when present, is a string of exactly four decimal
\* digits, whether a keyword pattern or the bare-year scan produced it.
C12_YearFourDigits ==
    metadata.year # None
        => /\ Len(metadata.year) = 4
           /\ \A i \in 1..Len(metadata.year) : metadata.year[i] \in Digit

\* C12's case: a returned record whose year came from the bare-year scan of a page
\* without a dated phrase
C12_Witness ==
    /\ pc = "done"
    /\ ~HasDatePhrase(pdf.text)
    /\ Contains(pdf.text, l_bare_year)
    /\ metadata.year = s_1998

----------------------------------------------------------------------------
(* extract_metadata_from_pdf called a second time on the same document *)

\* The caller keeps the record returned, with the step that raised, and calls again:
\* the locals of the new call are unset
CallAgain ==
    /\ pc = "done"
    /\ fn = "none"
    /\ fn' = "extract_metadata_from_pdf"
    /\ ret' = [record |-> metadata, raised |-> raised]
    /\ pc' = "begin"
    /\ pdf_metadata' = None
    /\ found' = NoFields
    /\ calls' = {}
    /\ raised' = "none"
    /\ UNCHANGED <<script, pdf, metadata, opened, arg, batch_vars>>

TwiceNext ==
    \/ Next
    \/ CallAgain

SpecTwice == Init /\ [][TwiceNext]_vars

----------------------------------------------------------------------------
(* The title policy *)

\* The title the three-step policy names: the usable container title, else the acceptable
\* section-marker capture, else the line the line scan accepts, else none
PolicyTitle(container, text) ==
    IF Truthy(container_title(container)) THEN container_title(container)
    ELSE IF Truthy(extract_title_from_text(text)) THEN extract_title_from_text(text)
    ELSE main_extract_title_from_text(text)

\* C14: the title of a record returned after the first page was read without exception
\* is the one the policy names: container metadata first, else the section-marker
\* pattern, else the line scan. In particular without usable container title and without
\* section marker, the title is the line that qualifies under the line scan.
C14_TitlePolicy ==
    (pc = "done" /\ raised = "none" /\ pdf.pages > 0)
        => metadata.title = PolicyTitle(pdf.title, pdf.text)

----------------------------------------------------------------------------
(* The order of the year patterns *)

Least(S) == CHOOSE n \in S : \A m \in S : n <= m

\* The year patterns that match somewhere in t, by their place in the list
MatchingYearPatterns(t) ==
    {k \in 1..Len(year_patterns) : re_search(year_patterns[k], t, TRUE).ok}

BareYearPlaces(t) == {p \in 1..Len(t) : IsBareYearAt(t, p)}

\* The year the stated order names: the capture of the earliest pattern of the list that
\* matches, else the first standalone 19xx/20xx token of the text, else none
YearByPriority(t, matching, bare) ==
    IF matching # {} THEN group1(t, re_search(year_patterns[Least(matching)], t, TRUE))
    ELSE IF bare # {} THEN SubSeq(t, Least(bare), Least(bare) + 3)
    ELSE None

\* C15: extract_year_from_text returns the capture of the earliest pattern of the fixed
\* list that matches the text, wherever lower-priority phrases and bare years stand; only
\* when no pattern matches does it return the first standalone 19xx/20xx token.
C15_FirstPatternWins ==
    fn = "extract_year_from_text"
        => ret = YearByPriority(arg, MatchingYearPatterns(arg), BareYearPlaces(arg))

\* C15's case: a bare year, then a received phrase, then an accepted phrase: the accepted
\* pattern is the first of the list and its year is returned
C15_Witness ==
    /\ fn = "extract_year_from_text"
    /\ arg = y_1998 \o y_received_2004 \o y_accepted_2006
    /\ ret = s_2006

----------------------------------------------------------------------------
(* main.py's extract_title_from_text on pages made of lines of each kind *)

MaxLinePieces == 2

n_mixed_letters == <<"E","f","f","e","c","t","s"," ","o","f"," ","s","t","r","e","s","s"," ","o","n"," ","m","e","m","o","r","y","\n">>
n_mixed_colon == <<"S","t","r","e","s","s"," ","a","n","d"," ","m","e","m","o","r","y",":"," ","a"," ","s","t","u","d","y","\n">>
n_all_caps == <<"B","E","H","A","V","I","O","U","R","A","L"," ","B","R","A","I","N"," ","R","E","S","E","A","R","C","H","\n">>
n_short == <<"S","h","o","r","t","\n">>
n_page_number == <<"1","2","3","4","5","6","7","8","9","0","1","\n">>
n_boilerplate == <<"A","v","a","i","l","a","b","l","e"," ","o","n","l","i","n","e"," ","2","5"," ","M","a","r","c","h"," ","2","0","0","6","\n">>
n_abstract == <<"A","b","s","t","r","a","c","t",":"," ","r","a","t","s"," ","w","e","r","e"," ","s","t","u","d","i","e","d","\n">>
n_middling == <<"S","t","r","e","s","s"," ","i","n"," ","r","a","t","s",":"," ","1","2","\n">>
n_blank == <<"\n">>

LinePieces == {n_mixed_letters, n_mixed_colon, n_all_caps, n_short, n_page_number,
               n_boilerplate, n_abstract, n_middling, n_blank}
LineTexts == Texts(LinePieces, MaxLinePieces)

LineInit ==
    /\ Idle
    /\ script = MainScript
    /\ fn = "none"
    /\ arg \in LineTexts
    /\ ret = None

\* title = extract_title_from_text(first_page) in main.py
CallMainTitle ==
    /\ fn = "none"
    /\ fn' = "extract_title_from_text"
    /\ ret' = main_extract_title_from_text(arg)
    /\ UNCHANGED <<arg, machine_vars>>

LineNext == CallMainTitle

SpecLineScan == LineInit /\ [][LineNext]_vars

\* The boilerplate patterns of the list: all but the page-number and the all-capitals one
boilerplate_patterns == <<skip_patterns[1], skip_patterns[4], skip_patterns[5], skip_patterns[6]>>

\* Is the stripped line one the stated rules skip: empty or shorter than 10 characters,
\* all-uppercase, a page number, or boilerplate?
StatedSkip(line) ==
    \/ Len(line) < TitleLineMinLen
    \/ isupper(line)
    \/ \A i \in 1..Len(line) : line[i] \in Digit
    \/ AnyMatches(boilerplate_patterns, line, TRUE)

\* Is the stripped line the kind the stated rules accept as a title?
StatedAccept(line) ==
    /\ ~StatedSkip(line)
    /\ Len(line) > TitleLineLongerThan
    /\ ~\E w \in {main_word.abstract, main_word.keywords, main_word.introduction,
                    main_word.background} : startswith(lower(line), w)

\* The first line, from line i on, that the stated rules accept, cut to 300 characters
RECURSIVE StatedTitle(_, _)
StatedTitle(lines, i) ==
    IF i > Len(lines) THEN None
    ELSE IF StatedAccept(strip(lines[i])) THEN Prefix(strip(lines[i]), TitleMaxLen)
    ELSE StatedTitle(lines, i + 1)

\* C16: the line scan returns the first of the first 20 lines that is not skipped (empty,
\* shorter than 10 characters, all-uppercase, a page number, boilerplate), is longer than
\* 20 characters and does not begin with "abstract", "keywords", "introduction" or
\* "background", cut to 300 characters; so a mixed-case line of more than 20 letters and
\* spaces that is not boilerplate is returned as the title.
C16_LineScanTitle ==
    fn = "extract_title_from_text"
        => ret = StatedTitle(Prefix(split_lines(arg), TitleScanLines), 1)

----------------------------------------------------------------------------
(* Document handles *)

\* C17: every handle extract_metadata_from_pdf opens is closed before the call returns,
\* also when reading the container metadata or the first page raises: once the call is
\* at its return no document is open.
C17_ClosedBeforeReturn ==
    pc \in {"return", "done"} => opened = 0

----------------------------------------------------------------------------
(* load_documents_with_metadata: the batch over the PDF files of a directory tree *)

MaxFiles == 2
MaxChunks == 2

Dirs == {"volume 272", "volume 273"}
Names == {"a.pdf", "b.pdf"}

\* The paths Path(input_dir).glob("**/*.pdf") may give; pdf_path.name is the last part
BatchFiles == [dir : Dirs, name : Names]

\* The document at a path: one page, no container title, a first page that depends on
\* the directory
PdfAt(path) ==
    [name |-> path.name, title |-> None, pages |-> 1,
     text |-> IF path.dir = "volume 272" THEN l_accepted ELSE l_bare_year]

\* Lists of at most n different paths
RECURSIVE FileLists(_)
FileLists(n) ==
    IF n = 0 THEN {<<>>}
    ELSE LET shorter == FileLists(n - 1)
         IN  shorter \cup {Append(l, f) : l \in shorter, f \in BatchFiles}

DistinctFileLists ==
    {l \in FileLists(MaxFiles) : \A i, j \in 1..Len(l) : i # j => l[i] # l[j]}

\* The record of build-vectordb-with-metadata.py for a readable document with a page
BuildRecord(name, title, text) ==
    [source |-> name,
     year |-> Store(None, extract_year_from_text(text)),
     title |-> IF Truthy(title) THEN title ELSE Store(None, extract_title_from_text(text)),
     authors |-> Store(None, extract_authors_from_text(text)),
     journal |-> Store(None, extract_journal_from_text(text))]

\* The record of main.py for a readable document with a page
MainRecord(name, text) ==
    [source |-> name,
     year |-> Store(None, extract_year_from_text(text)),
     title |-> Store(None, main_extract_title_from_text(text)),
     authors |-> Store(None, main_extract_authors_from_text(text)),
     journal |-> Store(None, main_extract_journal_from_text(text))]

\* What extract_metadata_from_pdf returns when no step raises: without a page nothing is
\* extracted, as from an empty page
ExtractedRecord(s, p) ==
    IF s = BuildScript
    THEN BuildRecord(p.name, container_title(p.title), IF p.pages > 0 THEN p.text ELSE <<>>)
    ELSE MainRecord(p.name, IF p.pages > 0 THEN p.text ELSE <<>>)

\* The records of the files of a batch, with the script and the path they belong to
BatchRecords ==
    {[script |-> s, path |-> path, record |-> ExtractedRecord(s, PdfAt(path))] :
        s \in Scripts, path \in BatchFiles}

\* extract_metadata_from_pdf(path) in script s, when no step raises
RecordAt(s, path) == (CHOOSE r \in BatchRecords : r.script = s /\ r.path = path).record

BatchInit ==
    /\ script \in Scripts
    /\ pdf = NoPdf
    /\ pc = "for_pdf_path"
    /\ pdf_metadata = None
    /\ found = NoFields
    /\ calls = {}
    /\ metadata = NoRecord
    /\ opened = 0
    /\ raised = "none"
    /\ fn = "none"
    /\ arg = <<>>
    /\ ret = None
    /\ pdf_files \in DistinctFileLists
    /\ outcomes = <<>>
    /\ documents = <<>>
    /\ metadata_list = <<>>
    /\ sections = <<>>

\* The file the loop is at
pdf_path == pdf_files[Len(outcomes) + 1]

\* Handler that lets the exception of a file leave the loop
BatchHandler_reraise(step) == "batch_propagated"

\* Where control goes when a step of the loop body raises: the body is one try block
BatchHandler(step) == "batch_except"

BatchRaise(step) ==
    /\ raised' = step
    /\ pc' = BatchHandler(step)

\* metadata = extract_metadata_from_pdf(pdf_path)
ExtractMetadata ==
    /\ pc = "for_pdf_path"
    /\ Len(outcomes) < Len(pdf_files)
    /\ \/ /\ metadata' = RecordAt(script, pdf_path)
          /\ pc' = "load_data"
          /\ UNCHANGED raised
       \/ /\ BatchRaise("extract_metadata_from_pdf")
          /\ UNCHANGED metadata
    /\ UNCHANGED <<script, pdf, pdf_metadata, found, calls, opened, fn, arg, ret, batch_vars>>

\* The chunks loader.load_data() gives for a file, each after doc.metadata.update(metadata)
LoadedChunks(path, n, record) ==
    [k \in 1..n |-> [file_path |-> path, chunk |-> k, metadata |-> record]]

\* docs = loader.load_data() and the loop that appends every chunk to documents
LoadData ==
    /\ pc = "load_data"
    /\ \/ /\ \E n \in 0..MaxChunks :
                /\ documents' = documents \o LoadedChunks(pdf_path, n, metadata)
                /\ outcomes' = Append(outcomes, [raised |-> "none", chunks |-> n])
          /\ pc' = "for_pdf_path"
          /\ UNCHANGED raised
       \/ /\ BatchRaise("load_data")
          /\ UNCHANGED <<documents, outcomes>>
    /\ UNCHANGED <<script, pdf, pdf_metadata, found, calls, metadata, opened, fn, arg, ret,
                   pdf_files, metadata_list, sections>>

\* except Exception as e: print(...), and on to the next file
BatchExcept ==
    /\ pc = "batch_except"
    /\ outcomes' = Append(outcomes, [raised |-> raised, chunks |-> 0])
    /\ raised' = "none"
    /\ pc' = "for_pdf_path"
    /\ UNCHANGED <<script, pdf, pdf_metadata, found, calls, metadata, opened, fn, arg, ret,
                   pdf_files, documents, metadata_list, sections>>

\* return documents
BatchReturn ==
    /\ pc = "for_pdf_path"
    /\ Len(outcomes) = Len(pdf_files)
    /\ pc' = "loaded"
    /\ UNCHANGED <<script, pdf, pdf_metadata, found, calls, metadata, opened, raised,
                   fn, arg, ret, batch_vars>>

\* The places of the chunks that are the first of their source
RECURSIVE FirstOfSource(_, _)
FirstOfSource(docs, i) ==
    IF i > Len(docs) THEN <<>>
    ELSE (IF \E j \in 1..(i - 1) : docs[j].metadata.source = docs[i].metadata.source
          THEN <<>> ELSE <<i>>) \o FirstOfSource(docs, i + 1)

\* unique_papers.values(): for each source, in the order the sources first appear, the
\* five fields of the first chunk that has it
unique_papers(docs, first) ==
    [k \in 1..Len(first) |->
        [source |-> docs[first[k]].metadata.source,
         year |-> docs[first[k]].metadata.year,
         title |-> docs[first[k]].metadata.title,
         authors |-> docs[first[k]].metadata.authors,
         journal |-> docs[first[k]].metadata.journal]]

\* save_unique_metadata_summary(documents) of build-vectordb-with-metadata.py
SaveUniqueMetadataSummary ==
    /\ pc = "loaded"
    /\ script = BuildScript
    /\ metadata_list' = unique_papers(documents, FirstOfSource(documents, 1))
    /\ pc' = "saved"
    /\ UNCHANGED <<script, pdf, pdf_metadata, found, calls, metadata, opened, raised,
                   fn, arg, ret, pdf_files, outcomes, documents, sections>>

BatchNext ==
    \/ ExtractMetadata
    \/ LoadData
    \/ BatchExcept
    \/ BatchReturn
    \/ SaveUniqueMetadataSummary

SpecBatch == BatchInit /\ [][BatchNext]_vars

\* The chunks of documents that come from the file at path, in order
ChunksFrom(path) == SelectSeq(documents, LAMBDA d : d.file_path = path)

C19_OneEntryPerPdf ==
    pc = "saved"
        => /\ \A d \in 1..Len(documents) :
                 \E e \in 1..Len(metadata_list) :
                     metadata_list[e].source = documents[d].metadata.source
           /\ \A e, f \in 1..Len(metadata_list) :
                 e # f => metadata_list[e].source # metadata_list[f].source
           /\ \A e \in 1..Len(metadata_list) :
                 \E d \in 1..Len(documents) :
                     /\ metadata_list[e] = documents[d].metadata
                     /\ \A c \in 1..(d - 1) :
                            documents[c].metadata.source # metadata_list[e].source
                     /\ \A f \in 1..(e - 1) : \E c \in 1..(d - 1) :
                            documents[c].metadata.source = metadata_list[f].source
           /\ Len(metadata_list) = Cardinality({documents[d].file_path : d \in 1..Len(documents)})

----------------------------------------------------------------------------
(* answer_split.py: split_psychology_journals *)

max_tokens == 500
SectionMinLen == 10

MaxSplitFiles == 1
MaxSplitChunks == 2

\* The characters of cleaned_text.lstrip('.,;:!? \n\t')
lstrip_chars == {".", ",", ";", ":", "!", "?", " ", "\n", "\t"}

\* str.lstrip(chars): without its leading characters that are in chars
lstrip(s, chars) ==
    LET kept == Where(s, LAMBDA i : s[i] \notin chars)
    IN  IF kept = <<>> THEN <<>> ELSE SubSeq(s, kept[1], Len(s))

\* cleaned_text = chunk.strip(); cleaned_text = cleaned_text.lstrip('.,;:!? \n\t')
cleaned_text(chunk) == lstrip(strip(chunk), lstrip_chars)

\* A chunk of the splitter with count_tokens(chunk), and the sub-chunks smaller_splitter
\* gives for it, each with its own count
c_dotted == [text |-> <<"."," ","R","a","t","s"," ","l","e","a","r","n"," ","f","a","s","t",".","\n">>, tokens |-> 5, smaller_chunks |-> <<>>]
c_parenthesis == [text |-> <<"(","s","e","e"," ","a","b","o","v","e",")"," ","a","n","d"," ","s","o"," ","o","n">>, tokens |-> 6, smaller_chunks |-> <<>>]
c_short == [text |-> <<";"," ","s","h","o","r","t">>, tokens |-> 2, smaller_chunks |-> <<>>]
c_at_limit == [text |-> <<"E","x","a","c","t","l","y"," ","a","t"," ","t","h","e"," ","l","i","m","i","t",".">>, tokens |-> max_tokens, smaller_chunks |-> <<>>]
c_over == [text |-> <<"V","e","r","y"," ","l","o","n","g"," ","t","e","x","t","."," ","M","i","c","e"," ","l","e","a","r","n"," ","t","o","o","."," ","S","t","i","l","l"," ","t","o","o"," ","l","o","n","g"," ",";"," ","t","i","n","y"," ">>, tokens |-> max_tokens + 1,
           smaller_chunks |-> <<[text |-> <<"."," ","M","i","c","e"," ","l","e","a","r","n"," ","t","o","o",".">>, tokens |-> 5],
                               [text |-> <<"S","t","i","l","l"," ","t","o","o"," ","l","o","n","g">>, tokens |-> max_tokens + 1],
                               [text |-> <<";"," ","t","i","n","y"," ">>, tokens |-> 2]>>]

Chunks == {c_dotted, c_parenthesis, c_short, c_at_limit, c_over}

\* Lists of at most n chunks: what text_splitter.split_text(full_text) may give
RECURSIVE ChunkLists(_)
ChunkLists(n) ==
    IF n = 0 THEN {<<>>}
    ELSE LET shorter == ChunkLists(n - 1)
         IN  shorter \cup {Append(l, c) : l \in shorter, c \in Chunks}

\* Lists of at most n file names
RECURSIVE NameLists(_)
NameLists(n) ==
    IF n = 0 THEN {<<>>}
    ELSE LET shorter == NameLists(n - 1)
         IN  shorter \cup {Append(l, f) : l \in shorter, f \in Names}

DistinctNameLists ==
    {l \in NameLists(MaxSplitFiles) : \A i, j \in 1..Len(l) : i # j => l[i] # l[j]}

\* The test of the token count that lets every chunk through
fits_always(token_count) == TRUE

\* if token_count <= max_tokens
fits(token_count) == token_count <= max_tokens

\* The section appended for a chunk that fits: none if the cleaned text is empty or has
\* no more than 10 characters. Only the text and the source of a section are kept here.
section_of(text, source) ==
    IF text # <<>> /\ Len(text) > SectionMinLen
    THEN <<[text |-> text, source |-> source]>>
    ELSE <<>>

\* The sections of the sub-chunks of a chunk over the limit, from sub-chunk i on
RECURSIVE smaller_sections(_, _, _)
smaller_sections(smaller_chunks, i, source) ==
    IF i > Len(smaller_chunks) THEN <<>>
    ELSE (IF fits(smaller_chunks[i].tokens)
          THEN section_of(cleaned_text(smaller_chunks[i].text), source)
          ELSE <<>>) \o smaller_sections(smaller_chunks, i + 1, source)

\* The sections the loop over the chunks appends, from chunk i on
RECURSIVE chunk_sections(_, _, _)
chunk_sections(chunks, i, source) ==
    IF i > Len(chunks) THEN <<>>
    ELSE (IF fits(chunks[i].tokens)
          THEN section_of(cleaned_text(chunks[i].text), source)
          ELSE smaller_sections(chunks[i].smaller_chunks, 1, source))
         \o chunk_sections(chunks, i + 1, source)

SplitInit ==
    /\ script = "answer_split.py"
    /\ pdf = NoPdf
    /\ pc = "split_for_pdf_path"
    /\ pdf_metadata = None
    /\ found = NoFields
    /\ calls = {}
    /\ metadata = NoRecord
    /\ opened = 0
    /\ raised = "none"
    /\ fn = "none"
    /\ arg = <<>>
    /\ ret = None
    /\ pdf_files \in DistinctNameLists
    /\ outcomes = <<>>
    /\ documents = <<>>
    /\ metadata_list = <<>>
    /\ sections = <<>>

\* One turn of "for pdf_path in pdf_files": the file is loaded and split, and every chunk
\* is handled in turn; an exception, in the load or at some chunk, ends the turn and
\* leaves the sections appended before it
SplitPdf ==
    /\ pc = "split_for_pdf_path"
    /\ Len(outcomes) < Len(pdf_files)
    /\ \/ \E chunks \in ChunkLists(MaxSplitChunks) :
            /\ sections' = sections \o chunk_sections(chunks, 1, pdf_files[Len(outcomes) + 1])
            /\ outcomes' = Append(outcomes, [raised |-> "none", chunks |-> chunks])
       \/ \E chunks \in ChunkLists(MaxSplitChunks) : \E done \in 0..(Len(chunks) - 1) :
            /\ sections' = sections \o chunk_sections(SubSeq(chunks, 1, done), 1,
                                                        pdf_files[Len(outcomes) + 1])
            /\ outcomes' = Append(outcomes, [raised |-> "count_tokens",
                                              chunks |-> SubSeq(chunks, 1, done)])
       \/ /\ outcomes' = Append(outcomes, [raised |-> "load", chunks |-> <<>>])
          /\ UNCHANGED sections
    /\ UNCHANGED <<script, pdf, pc, pdf_metadata, found, calls, metadata, opened, raised,
                   fn, arg, ret, pdf_files, documents, metadata_list>>

\* The sections are written to the output file, one line for each, in order
WriteSections ==
    /\ pc = "split_for_pdf_path"
    /\ Len(outcomes) = Len(pdf_files)
    /\ pc' = "written"
    /\ UNCHANGED <<script, pdf, pdf_metadata, found, calls, metadata, opened, raised,
                   fn, arg, ret, batch_vars>>

SplitNext ==
    \/ SplitPdf
    \/ WriteSections

SpecSplit == SplitInit /\ [][SplitNext]_vars

\* The texts of the chunks and sub-chunks within the limit, in order: a chunk over the
\* limit stands for its sub-chunks, and a sub-chunk over the limit for nothing
RECURSIVE TextsWithinLimit(_, _)
TextsWithinLimit(chunks, i) ==
    IF i > Len(chunks) THEN <<>>
    ELSE (IF chunks[i].tokens <= max_tokens THEN <<chunks[i].text>>
          ELSE LET within == SelectSeq(chunks[i].smaller_chunks,
                                       LAMBDA c : c.tokens <= max_tokens)
               IN  [k \in 1..Len(within) |-> within[k].text])
         \o TextsWithinLimit(chunks, i + 1)

\* The sections that came from file k, and the cleaned texts its chunks should leave
SectionsFrom(k) == SelectSeq(sections, LAMBDA sec : sec.source = pdf_files[k])
CleanedFrom(k) ==
    LET within == TextsWithinLimit(outcomes[k].chunks, 1)
    IN  SelectSeq([n \in 1..Len(within) |-> cleaned_text(within[n])],
                  LAMBDA t : Len(t) > SectionMinLen)

\* Every section is the cleaned text of a chunk or sub-chunk within the limit of its file,
\* and the chunks of a file give exactly these sections, in order, but for those whose
\* cleaned text has at most 10 characters
SectionsAccountForChunks ==
    \A k \in 1..Len(outcomes) :
        LET from == SectionsFrom(k)
        IN  /\ Len(from) = Len(CleanedFrom(k))
            /\ \A n \in 1..Len(from) : from[n].text = CleanedFrom(k)[n]

s_Mice_learn_too == <<"M","i","c","e"," ","l","e","a","r","n"," ","t","o","o",".">>

====
